---- MODULE Spec2Model ----
(***************************************************************************)
(* State-machine model of SingularitySpawner                                *)
(* (singularityspawner/singularityspawner.py).                              *)
(*                                                                          *)
(* One spawner object per user lives in the Hub process.  The Hub runs on   *)
(* a single tornado IOLoop thread: start() and pull_image() are decorated   *)
(* with @gen.coroutine but contain no yield, so each call runs to its end   *)
(* on the loop thread, and the Singularity client's pull() is an ordinary   *)
(* blocking call made on that thread.  The handler is split at the          *)
(* external calls (pull, process creation) so that the states in which an   *)
(* external call is outstanding are visible; `ioloop` records which         *)
(* handler occupies the loop thread.                                        *)
(***************************************************************************)
EXTENDS FiniteSets, Integers, Sequences, TLC

(* ---------------------------------------------------------------------- *)
(* Bounds of the model                                                     *)
(* ---------------------------------------------------------------------- *)
\* total number of start() calls explored
MaxStarts == 3

(* ---------------------------------------------------------------------- *)
(* Python values                                                           *)
(* ---------------------------------------------------------------------- *)
\* Python values that occur in user_options, tagged by type
NoneVal == [tag |-> "None", v |-> <<>>]
FalseVal == [tag |-> "bool", v |-> <<>>]
TrueVal == [tag |-> "bool", v |-> <<"True">>]
ListVal(s) == [tag |-> "list", v |-> s]

\* Python truthiness of such a value: None, False and [] are false
Truthy(x) == Len(x.v) > 0

\* dict.get(key, default): the default is used only when the key is missing
DictGet(d, k, dflt) == IF k \in DOMAIN d THEN d[k] ELSE dflt

\* the empty dict
EmptyDict == [k \in {} |-> NoneVal]

(* ---------------------------------------------------------------------- *)
(* Users and configuration                                                 *)
(* ---------------------------------------------------------------------- *)
Users == {"alice", "bob/x"}

\* user.escaped_name: the user name with unsafe characters percent-escaped
escaped_name(u) == IF u = "bob/x" THEN "bob%2Fx" ELSE u

\* traits with their default values
singularity_cmd == <<"/usr/local/bin/singularity", "exec">>
notebook_cmd == <<"jupyterhub-singleuser">>
default_image_url == "docker://jupyter/base-notebook"

\* the puller's bounded retry count (configuration option, default 1)
pullRetryCount == 1

\* A str.format template is a sequence of pieces; the piece "{username}"
\* is the replacement field.  The empty template is the trait's default.
DefaultTemplate == <<>>
UserTemplate == <<"/images/", "{username}", ".sif">>

\* The configurations explored, as <<default_image_path, args>>: the
\* defaults, and a site configuration with a path template and a value of
\* the inherited `args` trait (extra arguments of the server)
Configs == {<<DefaultTemplate, <<>> >>, <<UserTemplate, <<"--debug">> >>}

\* Image paths and remote references a user may post; the url field of
\* the form is prefilled with default_image_url.
PathChoices == {<<"/images/base.sif">>, <<"/images/base.sif", "/images/alt.sif">>}
UrlChoices == {default_image_url}
Refs == UrlChoices

\* str.format(username=name) on a template
RECURSIVE StrFormat(_, _)
StrFormat(tmpl, name) ==
    IF tmpl = <<>> THEN ""
    ELSE (IF Head(tmpl) = "{username}" THEN name ELSE Head(tmpl))
         \o StrFormat(Tail(tmpl), name)

VARIABLES
    default_image_path, \* config: template of the default image path
    args,               \* config: inherited extra arguments
    user_options,       \* per user: the dict the Hub stored on the spawner
    pc,                 \* per user: position of the spawn request
    procs,              \* per user: processes created, in order (alive?)
    ioloop,             \* the user whose handler occupies the loop thread
    image_path,         \* local variable image_path of the running start()
    popen_cmd,          \* argv the running start() gave to process creation
    pullState,          \* state of the pull the running start() asked for
    pullRef,            \* reference the running start() gave to the external pull
    pullDest,           \* destination the running start() gave to the external pull
    pullFuture,         \* Future returned by pull_image (dropped)
    launchFuture,       \* Future returned by super().start() (dropped)
    startFuture,        \* Future start() returned to its caller
    pullCount,          \* per reference: external pull invocations
    pullOutcomes,       \* per reference: outcomes its pulls have had
    nStarts             \* number of start() calls so far

vars == <<default_image_path, args, user_options, pc, procs, popen_cmd, ioloop,
          image_path, pullState, pullRef, pullDest, pullFuture,
          launchFuture, startFuture, pullCount, pullOutcomes, nStarts>>

\* the variables of the activation of start()
frame == <<image_path, pullState, pullRef, pullDest, pullFuture,
           launchFuture, startFuture>>
\* the configuration, read-only after start-up
config == <<default_image_path, args>>

(* ---------------------------------------------------------------------- *)
(* Methods without side effects                                            *)
(* ---------------------------------------------------------------------- *)
format_default_image_path(u) == StrFormat(default_image_path, escaped_name(u))

get_image_url(u) ==
    DictGet(user_options[u], "user_image_url", ListVal(<<default_image_url>>))

get_image_path(u) ==
    DictGet(user_options[u], "user_image_path",
            ListVal(<<format_default_image_path(u)>>))

\* list.extend(x) raises TypeError unless x is iterable
Extendable(x) == x.tag = "list"

\* _build_cmd; only evaluated where get_image_path(u) is a list
_build_cmd_swapped(u) == singularity_cmd \o notebook_cmd \o get_image_path(u).v
_build_cmd(u) == singularity_cmd \o get_image_path(u).v \o notebook_cmd

\* inherited get_args(): the extra arguments of the single-user server
get_args == args

\* The values the path field of a form can carry: tornado hands every
\* field over as the non-empty list of the values posted under its name.
PathLists == PathChoices

\* Form data the Hub can hand to options_from_form.  A field that is
\* absent from the posted form is None here (form_data.get(key, None)).
\* The url field is only read when the checkbox is set, so forms that
\* differ in it alone are not distinguished when the checkbox is clear.
FormData ==
    { f \in [ {"user_image_path", "user_image_url", "pull_from_url"}
              -> {NoneVal} \cup {ListVal(s) : s \in PathLists}
                 \cup {ListVal(<<r>>) : r \in UrlChoices}
                 \cup {ListVal(<<"pull">>)} ] :
        /\ f["user_image_path"] \in {NoneVal} \cup {ListVal(s) : s \in PathLists}
        /\ f["user_image_url"] \in {NoneVal} \cup {ListVal(<<r>>) : r \in UrlChoices}
        /\ f["pull_from_url"] \in {NoneVal, ListVal(<<"pull">>)}
        /\ (f["pull_from_url"] = NoneVal => f["user_image_url"] # NoneVal) }

\* Options a spawn through the REST API can carry without a form: the
\* request body becomes user_options as it is, keys it lacks are missing.
ApiOptions == {[pull_from_url |-> TrueVal]}

(* ---------------------------------------------------------------------- *)
(* Initial state                                                           *)
(* ---------------------------------------------------------------------- *)
Init ==
    /\ \E c \in Configs : default_image_path = c[1] /\ args = c[2]
    /\ user_options = [u \in Users |-> EmptyDict]
    /\ pc = [u \in Users |-> "idle"]
    /\ procs = [u \in Users |-> <<>>]
    /\ popen_cmd = <<>>
    /\ ioloop = "free"
    /\ image_path = NoneVal
    /\ pullState = "NotRequested"
    /\ pullRef = ""
    /\ pullDest = ""
    /\ pullFuture = "none"
    /\ launchFuture = "none"
    /\ startFuture = "none"
    /\ pullCount = [r \in Refs |-> 0]
    /\ pullOutcomes = [r \in Refs |-> {}]
    /\ nStarts = 0

(* ---------------------------------------------------------------------- *)
(* Operations                                                              *)
(* ---------------------------------------------------------------------- *)
\* options_from_form: every key is stored, an absent field as None (the
\* checkbox as False).  The Hub's spawn handler keeps the dict as
\* spawner.user_options and then calls start().
options_from_form(u, form_data) ==
    /\ ioloop = "free"
    /\ pc[u] = "idle"
    /\ nStarts < MaxStarts
    /\ user_options' = [user_options EXCEPT ![u] =
         [user_image_path |-> form_data["user_image_path"],
          user_image_url |-> form_data["user_image_url"],
          pull_from_url |-> IF form_data["pull_from_url"] = NoneVal
                            THEN FalseVal ELSE form_data["pull_from_url"]]]
    /\ pc' = [pc EXCEPT ![u] = "requested"]
    /\ UNCHANGED <<config, procs, popen_cmd, ioloop, frame, pullCount,
                   pullOutcomes, nStarts>>

\* A spawn requested through the API: the Hub stores the options of the
\* request on the spawner and then calls start().
set_user_options(u, options) ==
    /\ ioloop = "free"
    /\ pc[u] = "idle"
    /\ nStarts < MaxStarts
    /\ user_options' = [user_options EXCEPT ![u] = options]
    /\ pc' = [pc EXCEPT ![u] = "requested"]
    /\ UNCHANGED <<config, procs, popen_cmd, ioloop, frame, pullCount,
                   pullOutcomes, nStarts>>

\* start, lines 179-181: the handler takes the loop thread, resolves the
\* image path and reads the pull flag.  There is no check for a process
\* that is already running.
start_enter(u) ==
    /\ ioloop = "free"
    /\ pc[u] \in {"idle", "requested"}
    /\ nStarts < MaxStarts
    /\ nStarts' = nStarts + 1
    /\ ioloop' = u
    /\ image_path' = get_image_path(u)
    /\ LET pull_from_url == DictGet(user_options[u], "pull_from_url", FalseVal)
       IN /\ pc' = [pc EXCEPT ![u] =
                      IF Truthy(pull_from_url) THEN "pull" ELSE "launch"]
          /\ pullState' = IF Truthy(pull_from_url) THEN "Pending"
                          ELSE "NotRequested"
    /\ pullRef' = ""
    /\ pullDest' = ""
    /\ pullFuture' = "none"
    /\ launchFuture' = "none"
    /\ startFuture' = "pending"
    /\ UNCHANGED <<config, user_options, procs, popen_cmd, pullCount, pullOutcomes>>

\* one invocation of the external pull for reference ref: pull_image calls
\* Singularity.pull once, whatever earlier pulls of ref have done
CountPull_retry(cnt, ref) == [cnt EXCEPT ![ref] = @ + 2]
CountPull_cached(cnt, ref) ==
    IF "Done" \in pullOutcomes[ref] THEN cnt ELSE [cnt EXCEPT ![ref] = @ + 1]
CountPull(cnt, ref) == [cnt EXCEPT ![ref] = @ + 1]

\* the destination pull_image gives to the pull: image_name=image_path[0]
PullDestination_default(u) == format_default_image_path(u)
PullDestination(u) == get_image_path(u).v[1]

\* pull_image up to the call of Singularity.pull: image_url[0] and
\* image_path[0] raise TypeError on None; the coroutine wrapper stores the
\* exception in the returned Future, which start() drops.
pull_image(u) ==
    /\ ioloop = u
    /\ pc[u] = "pull"
    /\ LET image_url == get_image_url(u)
           path == get_image_path(u)
       IN IF image_url.tag = "list" /\ path.tag = "list"
          THEN /\ pullCount' = CountPull(pullCount, image_url.v[1])
               /\ pullRef' = image_url.v[1]
               /\ pullDest' = PullDestination(u)
               /\ pullState' = "InProgress"
               /\ pc' = [pc EXCEPT ![u] = "in_pull"]
               /\ UNCHANGED pullFuture
          ELSE /\ pullFuture' = "TypeError"
               /\ pullState' = "Failed"
               /\ pc' = [pc EXCEPT ![u] = "launch"]
               /\ UNCHANGED <<pullCount, pullRef, pullDest>>
    /\ UNCHANGED <<config, user_options, procs, popen_cmd, ioloop, image_path,
                   launchFuture, startFuture, pullOutcomes, nStarts>>

\* The blocking call Singularity.pull returns (ok) or raises (~ok) on the
\* loop thread; either way the outcome goes into the dropped Future and
\* start() continues with its next statement.
pull_return(u, ok) ==
    /\ ioloop = u
    /\ pc[u] = "in_pull"
    /\ pullState' = IF ok THEN "Done" ELSE "Failed"
    /\ pullFuture' = IF ok THEN "result" ELSE "PullError"
    /\ pullOutcomes' = [pullOutcomes EXCEPT ![pullRef] =
                          @ \cup {IF ok THEN "Done" ELSE "Failed"}]
    /\ pc' = [pc EXCEPT ![u] = "launch"]
    /\ UNCHANGED <<config, user_options, procs, popen_cmd, ioloop, image_path,
                   pullRef, pullDest, launchFuture, startFuture, pullCount,
                   nStarts>>

\* where start() stands when it calls super().start(): after pull_image
\* has returned
AtLaunch_early(u) == pc[u] \in {"in_pull", "launch"}
AtLaunch(u) == pc[u] = "launch"

\* super().start(), line 185: the parent reads self.cmd (_build_cmd),
\* appends get_args() and creates the process.  A TypeError from
\* cmd.extend(None) or an error of process creation (~created) is stored in
\* the Future the parent returns; start() neither yields nor returns it.
super_start(u, created) ==
    /\ ioloop = u
    /\ AtLaunch(u)
    /\ IF ~Extendable(get_image_path(u))
       THEN /\ launchFuture' = "TypeError"
            /\ UNCHANGED <<procs, popen_cmd>>
       ELSE /\ popen_cmd' = _build_cmd(u) \o get_args
            /\ IF created
               THEN /\ procs' = [procs EXCEPT ![u] = Append(@, TRUE)]
                    /\ launchFuture' = "result"
               ELSE /\ launchFuture' = "PermissionError"
                    /\ UNCHANGED procs
    /\ pc' = [pc EXCEPT ![u] = "return"]
    /\ UNCHANGED <<config, user_options, ioloop, image_path,
                   pullState, pullRef, pullDest, pullFuture, startFuture,
                   pullCount, pullOutcomes, nStarts>>

\* the value start() hands to its caller: the function ends without a
\* return statement, so its Future resolves to None
StartValue == "None"

\* start() falls off its end: its Future resolves with StartValue, the
\* locals and the two Futures nobody holds are discarded, and the loop
\* thread is released.
start_return(u) ==
    /\ ioloop = u
    /\ pc[u] = "return"
    /\ startFuture' = StartValue
    /\ pc' = [pc EXCEPT ![u] = "idle"]
    /\ ioloop' = "free"
    /\ image_path' = NoneVal
    /\ popen_cmd' = <<>>
    /\ pullState' = "NotRequested"
    /\ pullRef' = ""
    /\ pullDest' = ""
    /\ pullFuture' = "none"
    /\ launchFuture' = "none"
    /\ UNCHANGED <<config, user_options, procs, pullCount, pullOutcomes,
                   nStarts>>

\* inherited stop(): terminates self.proc, the process created last
stop(u) ==
    /\ ioloop = "free"
    /\ pc[u] = "idle"
    /\ procs[u] # <<>>
    /\ procs[u][Len(procs[u])]
    /\ procs' = [procs EXCEPT ![u][Len(procs[u])] = FALSE]
    /\ UNCHANGED <<config, user_options, pc, popen_cmd, ioloop, frame,
                   pullCount, pullOutcomes, nStarts>>

Next ==
    \/ \E u \in Users, f \in FormData : options_from_form(u, f)
    \/ \E u \in Users, o \in ApiOptions : set_user_options(u, o)
    \/ \E u \in Users : start_enter(u)
    \/ \E u \in Users : pull_image(u)
    \/ \E u \in Users, ok \in BOOLEAN : pull_return(u, ok)
    \/ \E u \in Users, created \in BOOLEAN : super_start(u, created)
    \/ \E u \in Users : start_return(u)
    \/ \E u \in Users : stop(u)

Spec == Init /\ [][Next]_vars

TypeOK ==
    /\ ioloop \in Users \cup {"free"}
    /\ nStarts \in 0..MaxStarts
    /\ pullState \in {"NotRequested", "Pending", "InProgress", "Done", "Failed"}
    /\ \A u \in Users :
         pc[u] \in {"idle", "requested", "pull", "in_pull", "launch", "return"}

(* ---------------------------------------------------------------------- *)
(* Properties                                                              *)
(* ---------------------------------------------------------------------- *)
\* the pull flag as start() reads it
PullRequested(u) ==
    Truthy(DictGet(user_options[u], "pull_from_url", FalseVal))

\* the external pull has been invoked by the running start()
PullInvoked == pullRef # ""

\* super().start() has been called by the running start()
LaunchBegun == launchFuture # "none"

\* the live processes of a user
LiveProcs(u) == {i \in DOMAIN procs[u] : procs[u][i]}

\* position of the image argument in the argv of a launch
ImageArg == Len(singularity_cmd) + 1

\* C1: in every start, a requested pull is Done or Failed before the
\* delegated launch begins: no state has the launch begun while the pull
\* is still Pending or InProgress.
C1_PullTerminalBeforeLaunch ==
    \A u \in Users :
        (ioloop = u /\ pullState \in {"Pending", "InProgress"})
            => (~LaunchBegun /\ popen_cmd = <<>>)

\* a start whose pull succeeded and whose process was created afterwards
C1_Witness ==
    \E u \in Users :
        /\ pc[u] = "return"
        /\ pullFuture = "result"
        /\ pullState = "Done"
        /\ launchFuture = "result"

\* C2: when the external pull of a start fails, start returns PullError to
\* its caller and no process is created.
C2_FailedPullAbortsStart ==
    \A u \in Users :
        (pc[u] = "return" /\ pullFuture = "PullError")
            => (StartValue = "PullError" /\ ~LaunchBegun /\ popen_cmd = <<>>)

C6_OneLiveProcess ==
    \A u \in Users : Cardinality(LiveProcs(u)) <= 1

\* C7: the resolved local path is non-empty, or else nothing is pulled or
\* launched; a reference is given to the pull iff the pull flag is set; an
\* absent path field resolves to the formatted default path.
C7_Resolution ==
    \A u \in Users :
        ioloop = u =>
            /\ \/ /\ image_path.tag = "list"
                  /\ image_path.v # <<>>
                  /\ \A i \in DOMAIN image_path.v : image_path.v[i] # ""
               \/ (~PullInvoked /\ popen_cmd = <<>>)
            /\ PullInvoked => PullRequested(u)
            /\ DictGet(user_options[u], "user_image_path", NoneVal) = NoneVal
                 => image_path = ListVal(<<format_default_image_path(u)>>)

\* C8: while one start is inside its external pull, the start of another
\* user's pending request can take its step.
C8_PullDoesNotBlockOthers ==
    \A u, v \in Users :
        (/\ u # v
         /\ pc[u] = "in_pull"
         /\ pc[v] \in {"idle", "requested"}
         /\ nStarts < MaxStarts)
            => ENABLED start_enter(v)

\* C9: what start hands to its caller is the outcome of the launch: the
\* handle the launch produced, or the error the launch raised.
C9_StartReflectsLaunch ==
    [][\A u \in Users :
          (pc[u] = "return" /\ pc'[u] = "idle")
              => /\ LaunchBegun
                 /\ startFuture' = IF launchFuture = "result" THEN "handle"
                                   ELSE launchFuture]_vars

\* C10: the destination given to the external pull is the image argument
\* of the command launched by the same start, and a start whose pull flag
\* is not set never invokes the external pull.
C10_PullDestIsLaunchedImage ==
    \A u \in Users :
        ioloop = u =>
            /\ (PullInvoked /\ popen_cmd # <<>>) => popen_cmd[ImageArg] = pullDest
            /\ ~PullRequested(u) => (~PullInvoked /\ pullState = "NotRequested")

\* a start has pulled to /images/base.sif and launched that image
C10_Witness ==
    \E u \in Users :
        /\ pc[u] = "return"
        /\ PullInvoked
        /\ pullDest = "/images/base.sif"
        /\ launchFuture = "result"
        /\ popen_cmd[ImageArg] = "/images/base.sif"
====
